---- MODULE Spec2Model ----
(***************************************************************************)
(* Clean Code reading tracker: the legacy client (App, part_003) talking   *)
(* to the reference server (part_008).                                     *)
(*                                                                         *)
(* The client is a React function component.  Its hook state is the set of *)
(* variables chs, load, pg, has_more, prog, err_msg.  Event handlers and   *)
(* async continuations read the values captured by the render that created *)
(* them, so the model keeps the values of the last render (rnd) next to    *)
(* the current hook state, and every request in flight carries the chs of  *)
(* the render that issued it.  A state update (setX) changes the hook      *)
(* state at once; the render that follows is a step of its own (Render).   *)
(* The server handles a request (…Handle) before its response reaches the  *)
(* client (…Resolve); a request can fail in transport at any time.         *)
(***************************************************************************)
EXTENDS Integers, Sequences, FiniteSets, TLC

\* ---------------------------------------------------------------- bounds
NumChapters == 6     \* most chapters the server holds (17 in part_008)
MaxActs == 2         \* user actions in one session that change something:
                     \* effective scrolls, toggles, notes sent, route changes
MaxFails == 1        \* requests that fail in one session
MergeIds == 3        \* chapter ids of the inputs of the merge step on its own
MaxPage == 2         \* chapters of a page, and of the list it is merged into

\* ------------------------------------------------------ program constants
limit == 5           \* page size the client asks for
MaxStore == 17       \* chapters of the reference server
Threshold == 100     \* scroll threshold in pixels
DefaultLimit == 5    \* page size of the server when the request names none
apiLimit == 5        \* page size the refactored client asks for
NoParam == 0         \* a page parameter that is undefined

\* ------------------------------------------------------------ data model
\* A chapter as the model keeps it: the immutable fields are dropped.
Chapter(i, r, n) == [id |-> i, read |-> r, notes |-> n]
NoCh == Chapter(0, FALSE, <<>>)              \* null / no record

\* Note texts: strings as sequences of characters.
NoteTexts == {<<>>, <<" ">>, <<"n">>}

\* Values of err_msg: null or a message.
NoErr == "null"
MsgFetch == "Failed to fetch chaps"
MsgToggle == "Failed to toggle read"
MsgNote == "Failed to add note"
MsgNet == "Failed to fetch"                  \* fetch() itself rejected

Ids(s) == {s[i].id : i \in 1..Len(s)}
Min(a, b) == IF a < b THEN a ELSE b

\* chs.filter(c => c.read).length
CountRead(s) == Cardinality({i \in 1..Len(s) : s[i].read})

VARIABLES
    chapters,    \* server: the chapters array
    chs, load, pg, has_more, prog, err_msg,   \* App hook state
    mounted,     \* App has rendered at least once
    rnd,         \* hook state as captured by the last render
    route,       \* 0 for "/", id for "/chapter/:id"
    det,         \* ChDetail state: [ch, err]
    history,     \* session history of the router: [entries, at]
    listReqs,    \* list requests in flight
    mutReqs,     \* toggle and add-note requests in flight
    detReqs,     \* loadCh requests in flight
    nAct,        \* user actions so far
    nFail,       \* failed requests so far
    issued,      \* history: the page of every list request, in issue order
    lastFail,    \* history: the last request that failed
    ev,          \* history: the last step taken
    qPages,      \* refactored client: data.pages of the ['chapters'] query
    qReqs,       \* refactored client: the fetch of the query in flight
    qErr,        \* refactored client: error of the query
    qRnd,        \* refactored client: what the last render of App captured
    qMuts        \* refactored client: mutations in flight

vars == <<chapters, chs, load, pg, has_more, prog, err_msg, mounted, rnd,
          route, det, history, listReqs, mutReqs, detReqs, nAct, nFail, issued, lastFail, ev,
          qPages, qReqs, qErr, qRnd, qMuts>>

server == <<chapters>>
hooks == <<chs, load, pg, has_more, prog, err_msg>>
view == <<mounted, rnd, route, det, history>>
fails == <<nFail, lastFail>>
legacy == <<hooks, view, listReqs, mutReqs, detReqs>>
clean == <<qPages, qReqs, qErr, qRnd, qMuts>>

\* ------------------------------------------------------ reference server
\* let chapters = [...]: n chapters with ids 1..n, every one unread and
\* without notes.
InitChapters(n) == [i \in 1..n |-> Chapter(i, FALSE, <<>>)]

\* The sizes of the store explored: a single chapter, exactly one full
\* page, and the most.
StoreSizes == {1, limit, NumChapters}

\* The sizes explored when every fetch is awaited: up to the 17 chapters of
\* part_008.
AwaitSizes == 1..MaxStore

\* parseInt(req.query.page) || 1
ParsePage(p) == IF p = 0 THEN 1 ELSE p

\* chapters.slice(start, end) for 0 <= start
Slice(s, start, end) == SubSeq(s, start + 1, Min(end, Len(s)))

\* a page that starts one page late
ListDataLate(page, lim) ==
    LET start == ParsePage(page) * (IF lim = 0 THEN DefaultLimit ELSE lim)
        end == start + (IF lim = 0 THEN DefaultLimit ELSE lim)
    IN  IF start < Len(chapters) THEN Slice(chapters, start, end) ELSE <<>>

\* parseInt(req.query.limit) || 5
ParseLimit(l) == IF l = 0 THEN DefaultLimit ELSE l

\* GET /api/chapters: the data of the page
ListData(page, lim) ==
    LET start == (ParsePage(page) - 1) * ParseLimit(lim)
        end == start + ParseLimit(lim)
    IN  IF start < Len(chapters) THEN Slice(chapters, start, end) ELSE <<>>

\* a lookup that falls back on the first chapter
FindChFirst(s, id) ==
    IF id \in Ids(s)
    THEN s[CHOOSE i \in 1..Len(s) : s[i].id = id /\ \A j \in 1..(i-1) : s[j].id # id]
    ELSE IF s # <<>> THEN s[1] ELSE NoCh

\* chapters.find(c => c.id === id), NoCh when there is none
FindCh(s, id) ==
    IF id \in Ids(s)
    THEN s[CHOOSE i \in 1..Len(s) : s[i].id = id /\ \A j \in 1..(i-1) : s[j].id # id]
    ELSE NoCh

\* chapter.read = req.body.read
PatchRead(s, id, r) ==
    LET c == FindCh(s, id)
    IN  [i \in 1..Len(s) |-> IF s[i] = c THEN [c EXCEPT !.read = r] ELSE s[i]]

\* a note put in front of the others
PushNoteFront(s, id, note) ==
    [i \in 1..Len(s) |-> IF s[i].id = id THEN [s[i] EXCEPT !.notes = <<note>> \o @] ELSE s[i]]

\* chapter.notes.push(req.body.note)
PushNote(s, id, note) ==
    LET c == FindCh(s, id)
    IN  [i \in 1..Len(s) |-> IF s[i] = c THEN [c EXCEPT !.notes = Append(@, note)] ELSE s[i]]

\* ------------------------------------------------------- client helpers
\* data.filter(c => !existingIds.has(c.id))
NewChs(prev, data) == SelectSeq(data, LAMBDA c : c.id \notin Ids(prev))

\* a merge that overwrites the chapters it already holds with the incoming ones
MergeUpsert(prev, data) ==
    [i \in 1..Len(prev) |->
        IF \E j \in 1..Len(data) : data[j].id = prev[i].id
        THEN data[CHOOSE j \in 1..Len(data) : data[j].id = prev[i].id]
        ELSE prev[i]] \o SelectSeq(data, LAMBDA c : c.id \notin Ids(prev))

\* a merge that appends the page as it came
MergeAppend(prev, data) == prev \o data

\* the setChs updater of fetchChapters
Merge(prev, data) == prev \o NewChs(prev, data)

\* a has-more test that counts a full store as having more
HasMoreLeq(c, data, total) == Len(c) + Len(NewChs(c, data)) <= total

\* the argument of setHasMore in fetchChapters; c is the chs of the render
\* that called fetchChapters
HasMore(c, data, total) == Len(c) + Len(NewChs(c, data)) < total

\* the argument of setProg in fetchChapters
ProgAfterFetch(c, data) == CountRead(c \o NewChs(c, data))

\* the argument of setProg in handle_toggle_read
ProgAfterToggle(c, currRead) == CountRead(c) + (IF ~currRead THEN 1 ELSE -1)

\* a replacement that takes only the read flag of the returned record
ReplaceRead(prev, id, updatedCh) ==
    [i \in 1..Len(prev) |->
        IF prev[i].id = id THEN [prev[i] EXCEPT !.read = updatedCh.read] ELSE prev[i]]

\* prev.map(c => c.id === id_num ? updatedCh : c)
Replace(prev, id, updatedCh) ==
    [i \in 1..Len(prev) |-> IF prev[i].id = id THEN updatedCh ELSE prev[i]]

\* the hook state a render captures
Snapshot == [chs |-> chs, load |-> load, pg |-> pg, has_more |-> has_more,
             prog |-> prog, err_msg |-> err_msg]

\* an App without the loading return
ViewNoLoading(r) == IF r.err_msg # NoErr THEN "error" ELSE "routes"

\* what App returns for a render
View(r) ==
    IF r.load /\ Len(r.chs) = 0 THEN "loading"
    ELSE IF r.err_msg # NoErr THEN "error"
    ELSE "routes"

Shown == mounted /\ View(rnd) = "routes"

FreshDet == [ch |-> NoCh, err |-> FALSE]

\* The URL the session starts at: the list, or the detail page of the first
\* or of the last chapter (which the first page does not hold).
InitRoutes(n) == {0, 1, n}


Ev(op, a) == [op |-> op, arg |-> a]

\* kind: "none", "list", "toggle", "note" or "detail"; arg: the page or the
\* chapter id; at: the number of list requests issued before the failure
Fail(kind, a) == [kind |-> kind, arg |-> a, at |-> Len(issued)]

\* history.push(to) of the router: the entries after the current one are
\* dropped and the new location goes last
Push(h, to) ==
    [entries |-> Append(SubSeq(h.entries, 1, h.at), to), at |-> h.at + 1]

\* -------------------------------------------------------------- requests
ListReq(p, c) == [p |-> p, chs |-> c, phase |-> "sent", data |-> <<>>, total |-> 0]
\* was (history): the read flag of chapter id in chs when the request is made
MutReq(n, kind, id, currRead, note, c) ==
    [n |-> n, kind |-> kind, id |-> id, currRead |-> currRead, note |-> note,
     chs |-> c, phase |-> "sent", ok |-> FALSE, ch |-> NoCh,
     was |-> FindCh(chs, id).read]
DetReq(id) == [id |-> id, phase |-> "sent", ok |-> FALSE, ch |-> NoCh]

\* the refactored client before its first render
CleanIdle ==
    /\ qPages = <<>>
    /\ qReqs = {}
    /\ qErr = NoErr
    /\ qRnd = [mounted |-> FALSE, chapters |-> <<>>, progress |-> 0,
               isLoading |-> FALSE, error |-> NoErr,
               hasNextPage |-> FALSE, isFetchingNextPage |-> FALSE]
    /\ qMuts = {}

InitWith(sizes) ==
    /\ chapters \in {InitChapters(n) : n \in sizes}
    /\ chs = <<>>
    /\ load = TRUE
    /\ pg = 1
    /\ has_more = TRUE
    /\ prog = 0
    /\ err_msg = NoErr
    /\ mounted = FALSE
    /\ rnd = Snapshot
    /\ route \in InitRoutes(Len(chapters))
    /\ history = [entries |-> <<route>>, at |-> 1]
    /\ det = FreshDet
    /\ listReqs = {}
    /\ mutReqs = {}
    /\ detReqs = {}
    /\ nAct = 0 /\ nFail = 0
    /\ issued = <<>>
    /\ lastFail = [kind |-> "none", arg |-> 0, at |-> 0]
    /\ ev = Ev("init", 0)
    /\ CleanIdle

Init == InitWith(StoreSizes)

\* ------------------------------------------------------------------ App
\* ChDetail is declared inside App: every render of App makes a new
\* component type, so a shown ChDetail is unmounted and mounted afresh, and
\* its effect calls loadCh again.  The loadCh requests of the unmounted
\* instance are dropped from detReqs: their responses update nothing (React
\* ignores the setState of an unmounted component) and the GET changes
\* nothing on the server.
MountDetail(r, id) ==
    /\ det' = FreshDet
    /\ detReqs' = IF View(r) = "routes" /\ id # 0 THEN {DetReq(id)} ELSE {}

\* fetchChapters(p) up to its await: setLoad(true) and the request
FetchChaptersCall(p) ==
    /\ load' = TRUE
    /\ listReqs' = listReqs \cup {ListReq(p, chs)}
    /\ issued' = Append(issued, p)

\* A render of App followed by its effects: the [pg] effect calls
\* fetchChapters(pg) at mount and whenever pg differs from the last render.
Render ==
    /\ ~mounted \/ rnd # Snapshot
    /\ mounted' = TRUE
    /\ rnd' = Snapshot
    /\ IF ~mounted \/ pg # rnd.pg
       THEN /\ FetchChaptersCall(pg)
            /\ ev' = Ev("render", pg)
       ELSE /\ UNCHANGED <<load, listReqs, issued>>
            /\ ev' = Ev("render", 0)
    /\ MountDetail(Snapshot, route)
    /\ UNCHANGED <<server, chs, pg, has_more, prog, err_msg, route, history, mutReqs, nAct, fails>>
    /\ UNCHANGED clean

\* a threshold test that misses the threshold itself
NearStrict(bottom, height) == bottom > height - Threshold

\* the condition of handleScroll on the geometry of the window
Near(bottom, height) == bottom >= height - Threshold

\* handleScroll, registered by the [has_more, load] effect of the last
\* render: has_more and load are the values of that render
handleScroll(bottom, height) ==
    /\ mounted
    /\ IF Near(bottom, height) /\ rnd.has_more /\ ~rnd.load
       THEN /\ pg' = pg + 1
            /\ nAct' = nAct + 1
       ELSE UNCHANGED <<pg, nAct>>
    /\ ev' = Ev("scroll", bottom)
    /\ UNCHANGED <<server, chs, load, has_more, prog, err_msg, view,
                   listReqs, mutReqs, detReqs, fails, issued>>
    /\ UNCHANGED clean

\* a scroll event: innerHeight + scrollTop below or at the threshold of a
\* document 1000 pixels high
Scroll ==
    \E bottom \in {899, 900} :
       /\ (Near(bottom, 1000) /\ rnd.has_more /\ ~rnd.load) => nAct < MaxActs
       /\ handleScroll(bottom, 1000)

\* A scroll event that comes only once the last fetch has resolved and its
\* result has been rendered: each fetch is awaited before the next trigger.
AwaitedScroll ==
    /\ listReqs = {}
    /\ rnd = Snapshot
    /\ \E bottom \in {899, 900} : handleScroll(bottom, 1000)

\* GET /api/chapters on the server
ListHandle(r) ==
    /\ r.phase = "sent"
    /\ listReqs' = (listReqs \ {r}) \cup
          {[r EXCEPT !.phase = "replied", !.data = ListData(r.p, limit),
                     !.total = Len(chapters)]}
    /\ ev' = Ev("listHandle", r.p)
    /\ UNCHANGED <<server, hooks, view, mutReqs, detReqs, nAct, fails, issued>>
    /\ UNCHANGED clean

\* A Store other than the reference server, whose pages can overlap: it
\* answers page p with the first page again (the fetch mock of App.test.tsx
\* answers every page with the same chapters), with page p, or with page p
\* starting one chapter early (a chapter was moved ahead between the calls).
PageStarts(p) ==
    {0, (p - 1) * limit - 1, (p - 1) * limit} \cap (0..(Len(chapters) - 1))

StoreListHandle(r) ==
    /\ r.phase = "sent"
    /\ \E start \in PageStarts(r.p) :
          listReqs' = (listReqs \ {r}) \cup
             {[r EXCEPT !.phase = "replied",
                        !.data = Slice(chapters, start, start + limit),
                        !.total = Len(chapters)]}
    /\ ev' = Ev("listHandle", r.p)
    /\ UNCHANGED <<server, hooks, view, mutReqs, detReqs, nAct, fails, issued>>
    /\ UNCHANGED clean

\* fetchChapters after the await, response ok
ListResolve(r) ==
    /\ r.phase = "replied"
    /\ chs' = Merge(chs, r.data)
    /\ has_more' = HasMore(r.chs, r.data, r.total)
    /\ prog' = ProgAfterFetch(r.chs, r.data)
    /\ load' = FALSE
    /\ listReqs' = listReqs \ {r}
    /\ ev' = Ev("listOk", r.p)
    /\ UNCHANGED <<server, pg, err_msg, view, mutReqs, detReqs, nAct, fails, issued>>
    /\ UNCHANGED clean

\* fetchChapters: fetch rejected, the catch and the finally
ListFail(r) ==
    /\ nFail < MaxFails
    /\ nFail' = nFail + 1
    /\ lastFail' = Fail("list", r.p)
    /\ err_msg' = MsgNet
    /\ load' = FALSE
    /\ listReqs' = listReqs \ {r}
    /\ ev' = Ev("listFail", r.p)
    /\ UNCHANGED <<server, chs, pg, has_more, prog, view, mutReqs, detReqs, nAct, issued>>
    /\ UNCHANGED clean

\* ------------------------------------------------------------ mutations
\* a handler that asks for the value the chapter already has
handle_toggle_same(id_num, currRead) ==
    /\ nAct < MaxActs
    /\ nAct' = nAct + 1
    /\ mutReqs' = mutReqs \cup
          {MutReq(nAct + 1, "toggle", id_num, ~currRead, <<>>, rnd.chs)}
    /\ ev' = Ev("toggle", id_num)
    /\ UNCHANGED <<server, hooks, view, listReqs, detReqs, fails, issued>>
    /\ UNCHANGED clean

\* handle_toggle_read(id_num, currRead) up to its await.  The handler is
\* the one of the last render: the chs it reads after the await is rnd.chs.
handle_toggle_read(id_num, currRead) ==
    /\ nAct < MaxActs
    /\ nAct' = nAct + 1
    /\ mutReqs' = mutReqs \cup
          {MutReq(nAct + 1, "toggle", id_num, currRead, <<>>, rnd.chs)}
    /\ ev' = Ev("toggle", id_num)
    /\ UNCHANGED <<server, hooks, view, listReqs, detReqs, fails, issued>>
    /\ UNCHANGED clean

\* ChList: the Switch of a chapter of the rendered list
ListToggle ==
    /\ Shown /\ route = 0
    /\ \E i \in 1..Len(rnd.chs) : handle_toggle_read(rnd.chs[i].id, rnd.chs[i].read)

\* ChDetail shows its chapter once loadCh has set it
DetailShown == Shown /\ route # 0 /\ ~det.err /\ det.ch # NoCh

\* ChDetail: the Switch of the loaded chapter
DetailToggle ==
    /\ DetailShown
    /\ handle_toggle_read(det.ch.id, det.ch.read)

\* add_note(id_num, note_txt) up to its await
add_note(id_num, note_txt) ==
    IF note_txt = <<>>
    THEN /\ ev' = Ev("noteRejected", id_num)
         /\ UNCHANGED <<server, hooks, view, listReqs, mutReqs, detReqs, nAct, fails,
                        issued, clean>>
    ELSE /\ nAct < MaxActs
         /\ nAct' = nAct + 1
         /\ mutReqs' = mutReqs \cup
               {MutReq(nAct + 1, "note", id_num, FALSE, note_txt, rnd.chs)}
         /\ ev' = Ev("note", id_num)
         /\ UNCHANGED <<server, hooks, view, listReqs, detReqs, fails, issued, clean>>

\* ChDetail: the Add Note button with the text of the input
DetailAddNote ==
    /\ DetailShown
    /\ \E t \in NoteTexts : add_note(det.ch.id, t)

\* PATCH /api/chapters/:id and POST /api/chapters/:id/notes on the server
MutHandle(r) ==
    /\ r.phase = "sent"
    /\ LET found == FindCh(chapters, r.id) # NoCh
           after == IF ~found THEN chapters
                    ELSE IF r.kind = "toggle" THEN PatchRead(chapters, r.id, ~r.currRead)
                    ELSE PushNote(chapters, r.id, r.note)
       IN  /\ chapters' = after
           /\ mutReqs' = (mutReqs \ {r}) \cup
                 {[r EXCEPT !.phase = "replied", !.ok = found, !.ch = FindCh(after, r.id)]}
    /\ ev' = Ev("mutHandle", r.id)
    /\ UNCHANGED <<hooks, view, listReqs, detReqs, nAct, fails, issued>>
    /\ UNCHANGED clean

\* handle_toggle_read after the await
ToggleResolve(r) ==
    /\ r.kind = "toggle" /\ r.phase = "replied"
    /\ IF r.ok
       THEN /\ chs' = Replace(chs, r.id, r.ch)
            /\ prog' = ProgAfterToggle(r.chs, r.currRead)
            /\ ev' = Ev("toggleOk", r.id)
            /\ UNCHANGED <<err_msg, fails>>
       ELSE /\ err_msg' = MsgToggle
            /\ nFail' = nFail + 1
            /\ lastFail' = Fail("toggle", r.id)
            /\ ev' = Ev("toggleFail", r.id)
            /\ UNCHANGED <<chs, prog>>
    /\ mutReqs' = mutReqs \ {r}
    /\ UNCHANGED <<server, load, pg, has_more, view, listReqs, detReqs, nAct, issued>>
    /\ UNCHANGED clean

\* add_note after the await
NoteResolve(r) ==
    /\ r.kind = "note" /\ r.phase = "replied"
    /\ IF r.ok
       THEN /\ chs' = Replace(chs, r.id, r.ch)
            /\ ev' = Ev("noteOk", r.id)
            /\ UNCHANGED <<err_msg, fails>>
       ELSE /\ err_msg' = MsgNote
            /\ nFail' = nFail + 1
            /\ lastFail' = Fail("note", r.id)
            /\ ev' = Ev("noteFail", r.id)
            /\ UNCHANGED chs
    /\ mutReqs' = mutReqs \ {r}
    /\ UNCHANGED <<server, load, pg, has_more, prog, view, listReqs, detReqs, nAct, issued>>
    /\ UNCHANGED clean

\* fetch() of a mutation rejected: the catch of handle_toggle_read / add_note
MutFail(r) ==
    /\ nFail < MaxFails
    /\ nFail' = nFail + 1
    /\ lastFail' = Fail(r.kind, r.id)
    /\ err_msg' = MsgNet
    /\ mutReqs' = mutReqs \ {r}
    /\ ev' = Ev(IF r.kind = "toggle" THEN "toggleFail" ELSE "noteFail", r.id)
    /\ UNCHANGED <<server, chs, load, pg, has_more, prog, view, listReqs, detReqs,
                   nAct, issued>>
    /\ UNCHANGED clean

\* ------------------------------------------------------------- ChDetail
\* "View Details" of a chapter of the rendered list: ChDetail mounts
Navigate ==
    /\ Shown /\ route = 0
    /\ nAct < MaxActs
    /\ nAct' = nAct + 1
    /\ \E i \in 1..Len(rnd.chs) :
          /\ route' = rnd.chs[i].id
          /\ history' = Push(history, rnd.chs[i].id)
          /\ MountDetail(rnd, rnd.chs[i].id)
          /\ ev' = Ev("navigate", rnd.chs[i].id)
    /\ UNCHANGED <<server, hooks, mounted, rnd, listReqs, mutReqs, fails, issued>>
    /\ UNCHANGED clean

\* "Back to List" of ChDetail: nav('/')
Back ==
    /\ DetailShown
    /\ nAct < MaxActs
    /\ nAct' = nAct + 1
    /\ route' = 0
    /\ history' = Push(history, 0)
    /\ MountDetail(rnd, 0)
    /\ ev' = Ev("back", route)
    /\ UNCHANGED <<server, hooks, mounted, rnd, listReqs, mutReqs, fails, issued>>
    /\ UNCHANGED clean

\* The browser moves to another entry of the session history (its back
\* and forward buttons, history.go): the router takes the location of that
\* entry.  Between two detail locations the route element stays the same,
\* so ChDetail stays mounted with its state: only useParams changes, and the
\* [id] effect calls loadCh for the new id, while a loadCh of the old id may
\* still be in flight.  From or to the list, ChDetail unmounts or mounts.
Traverse ==
    /\ mounted
    /\ \E k \in (1..Len(history.entries)) \ {history.at} :
          LET to == history.entries[k]
          IN  /\ history' = [history EXCEPT !.at = k]
              /\ route' = to
              /\ ev' = Ev("traverse", to)
              /\ IF View(rnd) = "routes" /\ route # 0 /\ to # 0
                 THEN /\ det' = det
                      /\ detReqs' = IF to = route THEN detReqs
                                    ELSE detReqs \cup {DetReq(to)}
                 ELSE MountDetail(rnd, to)
    /\ UNCHANGED <<server, hooks, mounted, rnd, listReqs, mutReqs, nAct, fails, issued>>
    /\ UNCHANGED clean

\* GET /api/chapters/:id on the server
DetHandle(r) ==
    /\ r.phase = "sent"
    /\ detReqs' = (detReqs \ {r}) \cup
          {[r EXCEPT !.phase = "replied", !.ok = (FindCh(chapters, r.id) # NoCh),
                     !.ch = FindCh(chapters, r.id)]}
    /\ ev' = Ev("detHandle", r.id)
    /\ UNCHANGED <<server, hooks, view, listReqs, mutReqs, nAct, fails, issued>>
    /\ UNCHANGED clean

\* loadCh after the await
DetResolve(r) ==
    /\ r.phase = "replied"
    /\ IF r.ok
       THEN /\ det' = [det EXCEPT !.ch = r.ch]
            /\ ev' = Ev("detOk", r.id)
            /\ UNCHANGED fails
       ELSE /\ det' = [det EXCEPT !.err = TRUE]
            /\ nFail' = nFail + 1
            /\ lastFail' = Fail("detail", r.id)
            /\ ev' = Ev("detFail", r.id)
    /\ detReqs' = detReqs \ {r}
    /\ UNCHANGED <<server, hooks, mounted, rnd, route, history, listReqs, mutReqs, nAct, issued>>
    /\ UNCHANGED clean

\* loadCh: fetch() rejected
DetFail(r) ==
    /\ nFail < MaxFails
    /\ nFail' = nFail + 1
    /\ lastFail' = Fail("detail", r.id)
    /\ det' = [det EXCEPT !.err = TRUE]
    /\ detReqs' = detReqs \ {r}
    /\ ev' = Ev("detFail", r.id)
    /\ UNCHANGED <<server, hooks, mounted, rnd, route, history, listReqs, mutReqs, nAct, issued>>
    /\ UNCHANGED clean

\* ------------------------------------------------------ specifications
Paging ==
    \/ Render
    \/ \E r \in listReqs : ListResolve(r)

Mutations ==
    \/ ListToggle
    \/ DetailToggle
    \/ DetailAddNote
    \/ \E r \in mutReqs : MutHandle(r)
    \/ \E r \in mutReqs : ToggleResolve(r)
    \/ \E r \in mutReqs : NoteResolve(r)

Detail ==
    \/ Navigate
    \/ Back
    \/ \E r \in detReqs : DetHandle(r)
    \/ \E r \in detReqs : DetResolve(r)

Failures ==
    \/ \E r \in listReqs : ListFail(r)
    \/ \E r \in mutReqs : MutFail(r)
    \/ \E r \in detReqs : DetFail(r)

Client == Paging \/ Scroll \/ Mutations \/ Detail \/ Failures

\* the legacy client with the reference server
Next ==
    \/ Client
    \/ \E r \in listReqs : ListHandle(r)

Spec == Init /\ [][Next]_vars

\* the legacy client with a Store whose pages may overlap
NextStore ==
    \/ Client
    \/ \E r \in listReqs : StoreListHandle(r)

InitStore == InitWith({NumChapters}) /\ route = 0

SpecStore == InitStore /\ [][NextStore]_vars

\* the chapter list of the legacy client with the reference server holding
\* up to MaxStore chapters, every fetch awaited before the next scroll and no
\* request failing
NextAwait ==
    \/ Paging
    \/ AwaitedScroll
    \/ \E r \in listReqs : ListHandle(r)

InitAwait == InitWith(AwaitSizes) /\ route = 0

SpecAwait == InitAwait /\ [][NextAwait]_vars

\* the chapter list of the legacy client with its switches and the reference
\* server: no scrolling, no detail route, no request failing
NextToggle ==
    \/ Paging
    \/ ListToggle
    \/ \E r \in listReqs : ListHandle(r)
    \/ \E r \in mutReqs : MutHandle(r)
    \/ \E r \in mutReqs : ToggleResolve(r)

InitToggle == InitWith({NumChapters}) /\ route = 0

SpecToggle == InitToggle /\ [][NextToggle]_vars

\* the legacy client opened on the list or on the detail route of chapter
\* 1, with its switches and its note field and the reference server: no
\* scrolling, no navigation, no request failing
NextMutate ==
    \/ Paging
    \/ Mutations
    \/ \E r \in listReqs : ListHandle(r)
    \/ \E r \in detReqs : DetHandle(r)
    \/ \E r \in detReqs : DetResolve(r)

InitMutate == InitWith({NumChapters}) /\ route \in {0, 1}

SpecMutate == InitMutate /\ [][NextMutate]_vars

\* the legacy client with the reference server and the session history of
\* the browser: the list, the detail route and the moves between them, no
\* scrolling, no mutation, no request failing
NextHistory ==
    \/ Paging
    \/ Detail
    \/ Traverse
    \/ \E r \in listReqs : ListHandle(r)

InitHistory == InitWith({NumChapters})

SpecHistory == InitHistory /\ [][NextHistory]_vars

\* ------------------------------------------ the merge step on its own
\* The chapters of the list at the start are unread; the ones a page brings
\* are read, so that an entry of the list can be told from an incoming
\* chapter with the same id.
MergeChapters(r) == {Chapter(i, r, <<>>) : i \in 1..MergeIds}

SeqsUpTo(S, n) == UNION {[1..k -> S] : k \in 0..n}

Unique(s) == \A i, j \in 1..Len(s) : s[i].id = s[j].id => i = j

\* A page holds no id twice: the store keeps one record for an id.
Pages == {P \in SeqsUpTo(MergeChapters(TRUE), MaxPage) : Unique(P)}

\* setChs(prev => ...) of fetchChapters applied to the page P
MergeStep(P) ==
    /\ chs' = Merge(chs, P)
    /\ ev' = Ev("merge", P)
    /\ UNCHANGED <<server, load, pg, has_more, prog, err_msg, view, listReqs, mutReqs,
                   detReqs, nAct, fails, issued>>
    /\ UNCHANGED clean

\* any accumulated list with unique ids
InitMerge ==
    /\ chs \in {A \in SeqsUpTo(MergeChapters(FALSE), MaxPage) : Unique(A)}
    /\ chapters = <<>>
    /\ load = FALSE /\ pg = 1 /\ has_more = TRUE /\ prog = 0 /\ err_msg = NoErr
    /\ mounted = TRUE
    /\ rnd = Snapshot
    /\ route = 0
    /\ history = [entries |-> <<0>>, at |-> 1]
    /\ det = FreshDet
    /\ listReqs = {} /\ mutReqs = {} /\ detReqs = {}
    /\ nAct = 0 /\ nFail = 0
    /\ issued = <<>>
    /\ lastFail = [kind |-> "none", arg |-> 0, at |-> 0]
    /\ ev = Ev("init", 0)
    /\ CleanIdle

NextMerge == \E P \in Pages : MergeStep(P)

SpecMerge == InitMerge /\ [][NextMerge]_vars

\* ------------------------------------- the reference server on its own
\* The requests of any client of the server: each handler runs to its
\* response in one step, and ev keeps the request and the response.
\* A page or a limit of 0 stands for a parameter that is absent.
\* The ids asked for: the first and the last chapter, and the ids next to
\* them that no chapter has.
ReqIds == {0, 1, Len(chapters), Len(chapters) + 1}

\* app.get('/api/chapters')
ApiList(page, lim) ==
    /\ ev' = Ev("apiList", [page |-> page, lim |-> lim, data |-> ListData(page, lim),
                            total |-> Len(chapters)])
    /\ UNCHANGED <<server, hooks, view, listReqs, mutReqs, detReqs, nAct, fails, issued>>
    /\ UNCHANGED clean

\* app.get('/api/chapters/:id')
ApiGet(id) ==
    /\ ev' = Ev("apiGet", [id |-> id, body |-> FALSE,
                           status |-> IF FindCh(chapters, id) # NoCh THEN 200 ELSE 404,
                           ch |-> FindCh(chapters, id)])
    /\ UNCHANGED <<server, hooks, view, listReqs, mutReqs, detReqs, nAct, fails, issued>>
    /\ UNCHANGED clean

\* app.patch('/api/chapters/:id')
ApiPatch(id, r) ==
    /\ nAct < MaxActs
    /\ nAct' = nAct + 1
    /\ IF FindCh(chapters, id) # NoCh
       THEN /\ chapters' = PatchRead(chapters, id, r)
            /\ ev' = Ev("apiPatch", [id |-> id, body |-> r, status |-> 200,
                                     ch |-> FindCh(chapters', id)])
       ELSE /\ UNCHANGED chapters
            /\ ev' = Ev("apiPatch", [id |-> id, body |-> r, status |-> 404, ch |-> NoCh])
    /\ UNCHANGED <<hooks, view, listReqs, mutReqs, detReqs, fails, issued>>
    /\ UNCHANGED clean

\* app.post('/api/chapters/:id/notes')
ApiNote(id, note) ==
    /\ nAct < MaxActs
    /\ nAct' = nAct + 1
    /\ IF FindCh(chapters, id) # NoCh
       THEN /\ chapters' = PushNote(chapters, id, note)
            /\ ev' = Ev("apiNote", [id |-> id, body |-> note, status |-> 200,
                                    ch |-> FindCh(chapters', id)])
       ELSE /\ UNCHANGED chapters
            /\ ev' = Ev("apiNote", [id |-> id, body |-> note, status |-> 404,
                                    ch |-> NoCh])
    /\ UNCHANGED <<hooks, view, listReqs, mutReqs, detReqs, fails, issued>>
    /\ UNCHANGED clean

NextServer ==
    \/ \E page \in 0..(Len(chapters) + 1), lim \in 0..(Len(chapters) + 1) : ApiList(page, lim)
    \/ \E id \in ReqIds : ApiGet(id)
    \/ \E id \in ReqIds, r \in BOOLEAN : ApiPatch(id, r)
    \/ \E id \in ReqIds, t \in NoteTexts : ApiNote(id, t)

InitServer == InitWith({0} \cup StoreSizes) /\ route = 0

SpecServer == InitServer /\ [][NextServer]_vars

\* ------------------------------------------- the chapter list on its own
\* The list route of the legacy client with the reference server: paging
\* and scrolling, list requests that can fail.  React runs a render it has
\* scheduled: Render is weakly fair.
NextScroll ==
    \/ Paging
    \/ Scroll
    \/ \E r \in listReqs : ListHandle(r)
    \/ \E r \in listReqs : ListFail(r)

InitScroll == InitWith(StoreSizes) /\ route = 0

SpecScroll == InitScroll /\ [][NextScroll]_vars /\ WF_vars(Render)

\* ------------------------------------------------- the refactored client
\* App (part_004) with useChapters: the chapter list is an infinite query of
\* @tanstack/react-query.  The query keeps the pages it has fetched (qPages)
\* and has at most one fetch in flight: fetchNextPage and invalidateQueries
\* cancel a fetch that is still running.  The first fetch has no page
\* parameter, which the URL carries as "undefined" and the server reads as
\* page 1.  The detail page (ChapterDetailPage) has a query of its own, whose
\* data and requests are det and detReqs.

\* getNextPageParam of useChapters
getNextPageParam(lastPage, allPages) ==
    IF Len(lastPage.data) > 0 THEN Len(allPages) + 1 ELSE NoParam

\* select: data.pages.flatMap(page => page.data)
RECURSIVE FlatMap(_)
FlatMap(pages) ==
    IF pages = <<>> THEN <<>>
    ELSE FlatMap(SubSeq(pages, 1, Len(pages) - 1)) \o pages[Len(pages)].data

\* what useChapters returns
qChapters == FlatMap(qPages)

\* a counter that counts every chapter id once
progressById ==
    Cardinality({qChapters[i].id : i \in {j \in 1..Len(qChapters) : qChapters[j].read}})

\* data?.pages.flatMap(page => page).filter(c => c.read).length || 0: the
\* pages of the selected data are the chapters themselves
progress == Len(SelectSeq(qChapters, LAMBDA c : c.read))

hasNextPage ==
    qPages # <<>> /\ getNextPageParam(qPages[Len(qPages)], qPages) # NoParam

\* no data yet and the first fetch running or about to start
isLoading == qPages = <<>> /\ (qReqs # {} \/ ~qRnd.mounted)

isFetchingNextPage == \E r \in qReqs : r.next

\* A fetch of the query: the page asked for, whether it is a fetchNextPage,
\* the pages it keeps (base) and the number of pages it still has to ask for
\* after this one (a refetch asks for every page again, one after the other).
QReq(param, next, base, todo) ==
    [param |-> param, next |-> next, base |-> base, todo |-> todo,
     phase |-> "sent", data |-> <<>>, total |-> 0]

\* a toggleMutation or noteMutation in flight
QMut(n, kind, id, read, note) ==
    [n |-> n, kind |-> kind, id |-> id, read |-> read, note |-> note,
     phase |-> "sent", ok |-> FALSE]

\* the values of useChapters a render of App captures
QSnapshot == [mounted |-> TRUE, chapters |-> qChapters, progress |-> progress,
              isLoading |-> isLoading, error |-> qErr,
              hasNextPage |-> hasNextPage,
              isFetchingNextPage |-> isFetchingNextPage]

\* what App returns for a render
QView(r) ==
    IF r.isLoading THEN "loading"
    ELSE IF r.error # NoErr THEN "error"
    ELSE "routes"

QShown == qRnd.mounted /\ QView(qRnd) = "routes"

\* ChapterDetailPage shows its chapter once its query has data
QDetailShown == QShown /\ route # 0 /\ ~det.err /\ det.ch # NoCh

\* A render of App; the first one mounts the query, which fetches its first
\* page.  When App comes to return its routes on a detail location,
\* ChapterDetailPage mounts and its query fetches the chapter.
QRender ==
    /\ ~qRnd.mounted \/ qRnd # QSnapshot
    /\ qRnd' = QSnapshot
    /\ IF ~qRnd.mounted
       THEN /\ qReqs' = {QReq(NoParam, FALSE, <<>>, 0)}
            /\ issued' = Append(issued, ParsePage(NoParam))
       ELSE UNCHANGED <<qReqs, issued>>
    /\ IF route # 0 /\ QView(QSnapshot) = "routes" /\ ~QShown
       THEN detReqs' = {DetReq(route)}
       ELSE UNCHANGED detReqs
    /\ ev' = Ev("qRender", 0)
    /\ UNCHANGED <<server, hooks, view, listReqs, mutReqs, qPages, qErr, qMuts,
                   nAct, fails>>

\* fetchNextPage of the infinite query: fetches the page getNextPageParam
\* names, if it names one, in the place of a fetch still running
fetchNextPage ==
    IF hasNextPage
    THEN /\ qReqs' = {QReq(getNextPageParam(qPages[Len(qPages)], qPages), TRUE,
                           qPages, 0)}
         /\ issued' = Append(issued, getNextPageParam(qPages[Len(qPages)], qPages))
    ELSE UNCHANGED <<qReqs, issued>>

\* handleScroll of the refactored App, registered by the last render
cleanHandleScroll(bottom, height) ==
    /\ qRnd.mounted
    /\ IF Near(bottom, height) /\ qRnd.hasNextPage /\ ~qRnd.isFetchingNextPage
       THEN /\ nAct' = nAct + 1
            /\ fetchNextPage
       ELSE UNCHANGED <<qReqs, issued, nAct>>
    /\ ev' = Ev("qScroll", bottom)
    /\ UNCHANGED <<server, legacy, qPages, qErr, qRnd, qMuts, fails>>

QScroll ==
    \E bottom \in {899, 900} :
       /\ (Near(bottom, 1000) /\ qRnd.hasNextPage /\ ~qRnd.isFetchingNextPage)
             => nAct < MaxActs
       /\ cleanHandleScroll(bottom, 1000)

\* A scroll event that comes only once the last fetch has resolved and its
\* result has been rendered: each fetchNextPage is awaited.
QAwaitedScroll ==
    /\ qReqs = {}
    /\ qRnd = QSnapshot
    /\ \E bottom \in {899, 900} : cleanHandleScroll(bottom, 1000)

\* GET /api/chapters on the server, for the query
QListHandle(r) ==
    /\ r.phase = "sent"
    /\ qReqs' = (qReqs \ {r}) \cup
          {[r EXCEPT !.phase = "replied", !.data = ListData(r.param, apiLimit),
                     !.total = Len(chapters)]}
    /\ ev' = Ev("qListHandle", r.param)
    /\ UNCHANGED <<server, legacy, qPages, qErr, qRnd, qMuts, nAct, fails, issued>>

\* the Store whose pages can overlap, for the query (the fetch mock of the
\* tests of the refactored client answers every page with the same chapters)
QStoreHandle(r) ==
    /\ r.phase = "sent"
    /\ \E start \in PageStarts(ParsePage(r.param)) :
          qReqs' = (qReqs \ {r}) \cup
             {[r EXCEPT !.phase = "replied",
                        !.data = Slice(chapters, start, start + apiLimit),
                        !.total = Len(chapters)]}
    /\ ev' = Ev("qListHandle", r.param)
    /\ UNCHANGED <<server, legacy, qPages, qErr, qRnd, qMuts, nAct, fails, issued>>

\* fetchChapters resolved: the fetch has one more page; it asks for the next
\* one if it is a refetch with pages left and getNextPageParam names one,
\* and else the query takes the pages of the fetch as its data
QResolve(r) ==
    /\ r.phase = "replied"
    /\ LET page == [data |-> r.data, total |-> r.total]
           acc == Append(r.base, page)
           nxt == getNextPageParam(page, acc)
       IN  IF r.todo > 0 /\ nxt # NoParam
           THEN /\ qReqs' = {QReq(nxt, r.next, acc, r.todo - 1)}
                /\ issued' = Append(issued, nxt)
                /\ UNCHANGED <<qPages, qErr>>
           ELSE /\ qPages' = acc
                /\ qErr' = NoErr
                /\ qReqs' = qReqs \ {r}
                /\ UNCHANGED issued
    /\ ev' = Ev("qListOk", r.param)
    /\ UNCHANGED <<server, legacy, qRnd, qMuts, nAct, fails>>

\* fetchChapters rejected for good: the query keeps its pages and holds the
\* error
QFail(r) ==
    /\ nFail < MaxFails
    /\ nFail' = nFail + 1
    /\ lastFail' = Fail("list", r.param)
    /\ qErr' = MsgNet
    /\ qReqs' = qReqs \ {r}
    /\ ev' = Ev("qListFail", r.param)
    /\ UNCHANGED <<server, legacy, qPages, qRnd, qMuts, nAct, issued>>

\* toggleRead(id, read) and addNote(id, note) of useChapters: mutate
mutate(kind, id, read, note) ==
    /\ nAct < MaxActs
    /\ nAct' = nAct + 1
    /\ qMuts' = qMuts \cup {QMut(nAct + 1, kind, id, read, note)}
    /\ ev' = Ev(kind, id)
    /\ UNCHANGED <<server, legacy, qPages, qReqs, qErr, qRnd, fails, issued>>

\* ChapterItemList: the Switch of a chapter of the rendered list
QListToggle ==
    /\ QShown /\ route = 0
    /\ \E i \in 1..Len(qRnd.chapters) :
          mutate("qToggle", qRnd.chapters[i].id, ~qRnd.chapters[i].read, <<>>)

\* ChapterDetailPage: the Switch of the chapter
QDetailToggle ==
    /\ QDetailShown
    /\ mutate("qToggle", det.ch.id, ~det.ch.read, <<>>)

\* ChapterNotes: "Add Note" with a text that is not empty
QAddNote ==
    /\ QDetailShown
    /\ \E t \in NoteTexts \ {<<>>} : mutate("qNote", det.ch.id, FALSE, t)

\* PATCH /api/chapters/:id and POST /api/chapters/:id/notes on the server
QMutHandle(r) ==
    /\ r.phase = "sent"
    /\ LET found == FindCh(chapters, r.id) # NoCh
       IN  /\ chapters' = IF ~found THEN chapters
                          ELSE IF r.kind = "qToggle"
                               THEN PatchRead(chapters, r.id, r.read)
                               ELSE PushNote(chapters, r.id, r.note)
           /\ qMuts' = (qMuts \ {r}) \cup
                 {[r EXCEPT !.phase = "replied", !.ok = found]}
    /\ ev' = Ev("qMutHandle", r.id)
    /\ UNCHANGED <<legacy, qPages, qReqs, qErr, qRnd, nAct, fails, issued>>

\* invalidateQueries: the ['chapters'] query fetches all its pages again in
\* the place of a fetch still running, and the query of the detail page
\* shown fetches its chapter again
Invalidate ==
    /\ qReqs' = {QReq(NoParam, FALSE, <<>>, IF qPages = <<>> THEN 0 ELSE Len(qPages) - 1)}
    /\ issued' = Append(issued, ParsePage(NoParam))
    /\ detReqs' = IF route # 0 /\ QShown THEN {DetReq(route)} ELSE detReqs

\* the response of a mutation: onSuccess invalidates the queries; an error
\* status makes the mutation fail, and useChapters has no onError
QMutResolve(r) ==
    /\ r.phase = "replied"
    /\ qMuts' = qMuts \ {r}
    /\ IF r.ok
       THEN /\ Invalidate
            /\ ev' = Ev("qMutOk", r.id)
            /\ UNCHANGED fails
       ELSE /\ nFail' = nFail + 1
            /\ lastFail' = Fail(r.kind, r.id)
            /\ ev' = Ev("qMutFail", r.id)
            /\ UNCHANGED <<qReqs, issued, detReqs>>
    /\ UNCHANGED <<server, hooks, view, listReqs, mutReqs, qPages, qErr, qRnd, nAct>>

\* fetch() of a mutation rejected: the mutation fails
QMutFail(r) ==
    /\ nFail < MaxFails
    /\ nFail' = nFail + 1
    /\ lastFail' = Fail(r.kind, r.id)
    /\ qMuts' = qMuts \ {r}
    /\ ev' = Ev("qMutFail", r.id)
    /\ UNCHANGED <<server, legacy, qPages, qReqs, qErr, qRnd, nAct, issued>>

\* fetchChapter of the detail page resolved: the data of its query
QDetResolve(r) ==
    /\ r.phase = "replied"
    /\ det' = IF r.ok THEN [ch |-> r.ch, err |-> FALSE] ELSE [det EXCEPT !.err = TRUE]
    /\ detReqs' = detReqs \ {r}
    /\ ev' = Ev("qDetOk", r.id)
    /\ UNCHANGED <<server, hooks, mounted, rnd, route, history, listReqs, mutReqs,
                   clean, nAct, fails, issued>>

CleanPaging ==
    \/ QRender
    \/ QScroll
    \/ \E r \in qReqs : QResolve(r)
    \/ \E r \in qReqs : QFail(r)

\* the list of the refactored client with a Store whose pages may overlap
NextCleanStore ==
    \/ CleanPaging
    \/ \E r \in qReqs : QStoreHandle(r)

InitCleanStore == InitWith({NumChapters}) /\ route = 0

SpecCleanStore == InitCleanStore /\ [][NextCleanStore]_vars

\* the switches and the note field of the refactored client, the server
\* behind them and the query of the detail page
CleanMutations ==
    \/ QListToggle
    \/ QDetailToggle
    \/ QAddNote
    \/ \E r \in qMuts : QMutHandle(r)
    \/ \E r \in qMuts : QMutResolve(r)
    \/ \E r \in detReqs : DetHandle(r)
    \/ \E r \in detReqs : QDetResolve(r)

\* the refactored client opened on the list or on the detail page of
\* chapter 1, with scrolling, its switches and its note field and a Store
\* whose pages may overlap; no request failing
NextCleanMutate ==
    \/ QRender
    \/ QScroll
    \/ CleanMutations
    \/ \E r \in qReqs : QStoreHandle(r)
    \/ \E r \in qReqs : QResolve(r)

InitCleanMutate == InitWith({NumChapters}) /\ route \in {0, 1}

SpecCleanMutate == InitCleanMutate /\ [][NextCleanMutate]_vars

\* the refactored client opened on the list or on the detail page of
\* chapter 1, with its switches and its note field and the reference
\* server; the requests of the mutations can fail
NextCleanFail ==
    \/ QRender
    \/ CleanMutations
    \/ \E r \in qReqs : QListHandle(r)
    \/ \E r \in qReqs : QResolve(r)
    \/ \E r \in qMuts : QMutFail(r)

InitCleanFail == InitWith({NumChapters}) /\ route \in {0, 1}

SpecCleanFail == InitCleanFail /\ [][NextCleanFail]_vars

\* the list of the refactored client with the reference server holding up
\* to MaxStore chapters, every fetch awaited and no request failing
NextCleanAwait ==
    \/ QRender
    \/ QAwaitedScroll
    \/ \E r \in qReqs : QListHandle(r)
    \/ \E r \in qReqs : QResolve(r)

InitCleanAwait == InitWith(AwaitSizes) /\ route = 0

SpecCleanAwait == InitCleanAwait /\ [][NextCleanAwait]_vars

\* ---------------------------------------------------------------- claims
\* C1 (counter consistency): in every reachable state prog equals the number
\* of chapters of chs whose read flag is true.
C1_CounterConsistent == prog = CountRead(chs)


\* C2 (no duplicate ids): whatever pages the Store returns, overlapping
\* earlier pages or not, chs never holds two entries with the same id.
C2_NoDuplicateIds ==
    \A i, j \in 1..Len(chs) : chs[i].id = chs[j].id => i = j

\* Pages 1 and 2 were both fetched and merged, and the Store answered page 2
\* with the chapters of page 1 again.
C2_OverlapMerged ==
    /\ ev = Ev("listOk", 2)
    /\ issued = <<1, 2>> /\ listReqs = {} /\ nFail = 0
    /\ Ids(chs) = 1..limit

\* C3 (fetch gate exclusivity): at most one list request is outstanding at
\* any time.
C3_FetchGateExclusive == Cardinality(listReqs) <= 1

\* ceil(n / k)
CeilDiv(n, k) == (n + k - 1) \div k

\* C4 (hasMore termination): with N chapters on the reference server, every
\* fetch awaited and succeeding, has_more is false exactly once
\* ceil(N / limit) list requests have been made and resolved, chs then holds
\* N chapters, and after the i-th fetch chs holds min(N, i * limit) chapters.
C4_HasMoreTermination ==
    LET N == Len(chapters)
        need == CeilDiv(N, limit)
        settled == mounted /\ listReqs = {}
    IN  /\ ~has_more => (Len(issued) = need /\ settled /\ Len(chs) = N)
        /\ (settled /\ Len(issued) = need) => ~has_more
        /\ settled => Len(chs) = Min(N, Len(issued) * limit)
        /\ Len(issued) <= need

\* The 17 chapters of the reference server are all fetched, by the fourth
\* request.
C4_Exhausted ==
    /\ Len(chapters) = MaxStore
    /\ ~has_more /\ Len(issued) = CeilDiv(MaxStore, limit) /\ Len(chs) = MaxStore

\* C5 (same-id serialization): no two toggle requests for the same chapter
\* are outstanding at the same time.
C5_SameIdSerialized ==
    \A r1, r2 \in mutReqs :
       (r1.kind = "toggle" /\ r2.kind = "toggle" /\ r1.id = r2.id) => r1 = r2

\* C6 (fetch failure is retryable): when the list request for page p has
\* failed, the next list request issued is for page p again.
C6_FailedPageRetried ==
    (lastFail.kind = "list" /\ Len(issued) > lastFail.at)
        => issued[lastFail.at + 1] = lastFail.arg

\* C7 (unknown-id mutations): no toggle or add-note request is sent for an
\* id that matches no record of chs.  (chs never loses an id, so an id that
\* is unknown now was unknown when the request was sent.)
C7_UnknownIdNotSent == \A r \in mutReqs : r.id \in Ids(chs)

\* text.trim(): the text without its leading and trailing blanks
RECURSIVE TrimLeft(_)
TrimLeft(t) == IF t # <<>> /\ Head(t) = " " THEN TrimLeft(Tail(t)) ELSE t

RECURSIVE TrimRight(_)
TrimRight(t) ==
    IF t # <<>> /\ t[Len(t)] = " " THEN TrimRight(SubSeq(t, 1, Len(t) - 1)) ELSE t

Trim(t) == TrimRight(TrimLeft(t))

\* C8 (add-note rejection): no add-note request is sent with a text that is
\* empty after trimming, and no such text becomes a note of a chapter.
C8_BlankNoteRejected ==
    /\ \A r \in mutReqs : r.kind = "note" => Trim(r.note) # <<>>
    /\ \A i \in 1..Len(chapters) : \A k \in 1..Len(chapters[i].notes) :
          Trim(chapters[i].notes[k]) # <<>>

\* C9 (toggle failure): when the request of a toggle fails, the read flag
\* of the chapter in chs after the failure has been handled is the one it had
\* when the toggle was requested, the handling leaves prog unchanged, and
\* err_msg is set.
C9_ToggleFailure ==
    [][ ev'.op = "toggleFail" =>
          \A r \in mutReqs \ mutReqs' :
             /\ r.id \in Ids(chs') => FindCh(chs', r.id).read = r.was
             /\ prog' = prog
             /\ err_msg' # NoErr ]_vars

\* C10 (errors do not block the session): once the failure of a toggle or
\* of a note has been rendered, the view still shows the routes (the chapter
\* list with its switches) and not the error page.
C10_SessionUsable ==
    (lastFail.kind \in {"toggle", "note"} /\ mounted /\ rnd = Snapshot)
        => View(rnd) = "routes"

\* C11 (gate closed after exhaustion): in every state where has_more is
\* false, a scroll event issues no list request and leaves chs, pg and prog
\* unchanged.
C11_GateClosed ==
    [][ (~has_more /\ ev'.op = "scroll") =>
          (pg' = pg /\ chs' = chs /\ prog' = prog /\ listReqs' = listReqs) ]_vars

\* C12 (merge idempotence): for every accumulated list and every page P,
\* merging P twice gives the same list as merging it once.
C12_MergeIdempotent ==
    \A P \in Pages : Merge(Merge(chs, P), P) = Merge(chs, P)

\* A page has just been merged into a list that was not empty, and its last
\* chapter was new.
C12_PageMerged ==
    /\ ev.op = "merge" /\ ev.arg # <<>>
    /\ Len(chs) > Len(ev.arg)
    /\ chs[Len(chs)] = ev.arg[Len(ev.arg)]

\* C13 (merge result): the merge of page P into A is A, every entry at its
\* position and unmodified, followed by exactly the chapters of P whose id
\* does not occur in A, in P's order.
C13_MergeResult ==
    [][ ev'.op = "merge" =>
          LET A == chs
              P == ev'.arg
              R == chs'
              keep == {j \in 1..Len(P) : \A i \in 1..Len(A) : A[i].id # P[j].id}
              nth(k) == CHOOSE j \in keep : Cardinality({x \in keep : x < j}) = k - 1
          IN  /\ Len(R) = Len(A) + Cardinality(keep)
              /\ \A i \in 1..Len(A) : R[i] = A[i]
              /\ \A k \in 1..Cardinality(keep) : R[Len(A) + k] = P[nth(k)] ]_vars

\* A page of two chapters was merged: its first chapter has the id of the
\* first chapter of the list but another read flag, its second one was new.
C13_OverlapKept ==
    /\ ev.op = "merge" /\ Len(ev.arg) = 2 /\ Len(chs) = 3 /\ Unique(chs)
    /\ chs[1].id = ev.arg[1].id /\ chs[1] # ev.arg[1]
    /\ chs[3] = ev.arg[2]

\* the pages 1..n of limit k, one after the other
RECURSIVE ConcatPages(_, _)
ConcatPages(n, k) == IF n = 0 THEN <<>> ELSE ConcatPages(n - 1, k) \o ListData(n, k)

\* C14 (list page of the reference server): for page p >= 1 and limit
\* k >= 1 the response holds the chapters at positions (p-1)*k ..
\* min(p*k, N) - 1 of the store in store order, none when (p-1)*k >= N, and
\* total = N; the pages 1..ceil(N/k) one after the other are the store.
C14_ListPage ==
    LET N == Len(chapters)
    IN  /\ (ev.op = "apiList" /\ ev.arg.page >= 1 /\ ev.arg.lim >= 1) =>
              LET page == ev.arg.page
                  k == ev.arg.lim
                  first == (page - 1) * k
                  n == IF first >= N THEN 0 ELSE Min(page * k, N) - first
              IN  /\ ev.arg.total = N
                  /\ Len(ev.arg.data) = n /\ n <= k
                  /\ \A i \in 1..n : ev.arg.data[i] = chapters[first + i]
        /\ \A k \in 1..(N + 1) : ConcatPages(CeilDiv(N, k), k) = chapters

\* The last page of a store of NumChapters chapters was asked for with limit
\* 4 and is shorter than the limit; a chapter of it has been changed before.
C14_ShortLastPage ==
    /\ ev.op = "apiList" /\ Len(chapters) = NumChapters
    /\ ev.arg.lim = 4 /\ ev.arg.page = CeilDiv(NumChapters, 4)
    /\ Len(ev.arg.data) \in 1..3
    /\ \E i \in 1..Len(ev.arg.data) : ev.arg.data[i].read

\* C15 (not found on the reference server): get-chapter, toggle-read and
\* add-note with an id no chapter has answer 404 and leave the store as it
\* is; with a known id they answer 200 with the whole record of that chapter
\* as it is after the request.
C15_NotFound ==
    [][ ev'.op \in {"apiGet", "apiPatch", "apiNote"} =>
          LET id == ev'.arg.id
              at == {i \in 1..Len(chapters) : chapters[i].id = id}
          IN  IF at = {}
              THEN ev'.arg.status = 404 /\ chapters' = chapters
              ELSE /\ ev'.arg.status = 200
                   /\ \A i \in at :
                         /\ ev'.arg.ch = chapters'[i]
                         /\ ev'.op = "apiGet" => chapters'[i] = chapters[i]
                         /\ ev'.op = "apiPatch" =>
                               chapters'[i] = [chapters[i] EXCEPT !.read = ev'.arg.body]
                         /\ ev'.op = "apiNote" =>
                               chapters'[i] = [chapters[i] EXCEPT
                                                 !.notes = Append(@, ev'.arg.body)] ]_vars

\* A toggle-read for an id no chapter has was answered 404 by a store that
\* holds chapters, one of them changed before.
C15_UnknownPatched ==
    /\ ev.op = "apiPatch" /\ ev.arg.status = 404
    /\ ev.arg.id = Len(chapters) + 1
    /\ \E i \in 1..Len(chapters) : chapters[i].read \/ chapters[i].notes # <<>>

IsPrefix(a, b) == Len(a) <= Len(b) /\ SubSeq(b, 1, Len(a)) = a

\* C16 (notes are append-only on the reference server): every request
\* leaves the notes of every chapter a prefix of its notes afterwards, so the
\* notes of any earlier state are a prefix of those of any later state;
\* add-note appends exactly one note at the end of the notes of its chapter
\* and changes nothing else; only toggle-read changes a read flag.
C16_NotesAppendOnly ==
    [][ /\ Len(chapters') = Len(chapters)
        /\ \A i \in 1..Len(chapters) :
              /\ chapters'[i].id = chapters[i].id
              /\ IsPrefix(chapters[i].notes, chapters'[i].notes)
              /\ ev'.op # "apiPatch" => chapters'[i].read = chapters[i].read
              /\ IF ev'.op = "apiNote" /\ chapters[i].id = ev'.arg.id
                 THEN chapters'[i].notes = Append(chapters[i].notes, ev'.arg.body)
                 ELSE chapters'[i].notes = chapters[i].notes ]_vars

\* A second note has been added to a chapter.
C16_SecondNote ==
    /\ ev.op = "apiNote" /\ ev.arg.status = 200
    /\ Len(ev.arg.ch.notes) = 2 /\ ev.arg.ch.notes[1] # ev.arg.ch.notes[2]

C18_InitialLoad ==
    LET N == Len(chapters)
    IN  /\ issued # <<>> => issued[1] = 1
        /\ mounted => issued # <<>>
        /\ (mounted /\ nFail = 0 /\ chs = <<>>) =>
              /\ issued = <<1>> /\ Cardinality(listReqs) = 1
              /\ View(rnd) = "loading"
        /\ (mounted /\ nFail = 0 /\ rnd.chs # <<>>) =>
              /\ View(rnd) = "routes"
              /\ Len(rnd.chs) >= Min(N, limit)
              /\ \A i \in 1..Min(N, limit) : rnd.chs[i].id = chapters[i].id
        /\ (mounted /\ rnd = Snapshot /\ issued = <<1>>
              /\ lastFail.kind = "list" /\ lastFail.arg = 1) =>
              /\ View(rnd) = "error" /\ chs = <<>>

\* Page 1 of a store of more than one page has been loaded and rendered.
C18_FirstPageShown ==
    /\ mounted /\ rnd = Snapshot /\ issued = <<1>> /\ listReqs = {} /\ nFail = 0
    /\ Len(chapters) = NumChapters /\ Len(rnd.chs) = limit /\ route = 0
    /\ ev = Ev("render", 0)

C20_CleanNoDuplicateIds == Unique(qChapters)

\* C21 (hasMore termination in the refactored client): with N chapters on
\* the reference server and every fetch awaited and succeeding, once
\* ceil(N / 5) list requests have been made and resolved hasNextPage is
\* false and the chapters list holds N entries.
C21_CleanTermination ==
    LET N == Len(chapters)
        settled == qRnd.mounted /\ qReqs = {}
    IN  (settled /\ Len(issued) = CeilDiv(N, apiLimit)) =>
           (~hasNextPage /\ Len(qChapters) = N)

\* C22 (inFlight tracks the outstanding request): load is true whenever a
\* list request has been issued and has not resolved yet, and load is false
\* once App is mounted and every list request has completed, by success or
\* by failure.
C22_LoadTracksRequest ==
    /\ listReqs # {} => load
    /\ (mounted /\ listReqs = {}) => ~load

\* C23 (cursor sequence): the pages of the list requests of a session, in
\* the order they are issued, are 1, 2, 3, ...: the i-th request asks for
\* page i, and no index is skipped.
C23_CursorSequence == \A i \in 1..Len(issued) : issued[i] = i

\* C24 (hasMore on an empty increment): when a list request succeeds and
\* adds no chapter to chs (every chapter of the page is already there, or
\* the page is empty), has_more is false afterwards, also when chs is
\* shorter than the total the Store reported.
C24_EmptyIncrementStops ==
    [][ (ev'.op = "listOk" /\ chs' = chs) => ~has_more' ]_vars

\* C25 (authoritative overwrite): when a toggle or add-note request for id
\* succeeds, the entry of chs with that id becomes exactly the record the
\* server returned; the length of chs, the order of its entries and every
\* entry with another id are unchanged.
C25_AuthoritativeOverwrite ==
    [][ ev'.op \in {"toggleOk", "noteOk"} =>
          \E r \in mutReqs \ mutReqs' :
             /\ r.id = ev'.arg /\ r.ok
             /\ Len(chs') = Len(chs)
             /\ \A i \in 1..Len(chs) :
                   chs'[i] = IF chs[i].id = r.id THEN r.ch ELSE chs[i]
      ]_vars

\* A note added from the detail route has come back and is in the entry of
\* chs, which held no note before.
C25_NoteOverwritten ==
    /\ ev.op = "noteOk" /\ Len(chs) > 1
    /\ \E i \in 1..Len(chs) :
          /\ chs[i].id = ev.arg /\ chs[i].notes # <<>> /\ rnd.chs[i].notes = <<>>
          /\ chs[i] = chapters[i]

\* C26 (optimistic flip): right after handle_toggle_read has been invoked
\* for a chapter of chs, before the server has answered, the read flag of
\* that chapter in chs is the negation of its value before the call.
C26_OptimisticFlip ==
    [][ ev'.op = "toggle" =>
          \A i \in 1..Len(chs) :
             chs[i].id = ev'.arg =>
                (Len(chs') = Len(chs) /\ chs'[i].read = ~chs[i].read)
      ]_vars

\* C27 (cancellation): when the detail view that issued a loadCh request
\* has been left, or shows another id, by the time the response arrives,
\* the response is discarded: it changes no state of the detail view.
C27_StaleResponseDiscarded ==
    [][ (ev'.op \in {"detOk", "detFail"} /\ ev'.arg # route) => det' = det ]_vars

\* C28 (derived counter in the refactored client): in every state the
\* progress that useChapters returns is the number of read entries of the
\* chapters list it returns with it, as returned now and as the last render
\* of App received them, whatever toggles, notes, invalidations and page
\* fetches have happened; a mutation on its own never changes it.
C28_DerivedCounter ==
    /\ [](/\ progress = CountRead(qChapters)
          /\ qRnd.mounted => qRnd.progress = CountRead(qRnd.chapters))
    /\ [][ ev'.op \in {"qToggle", "qNote", "qMutHandle", "qMutOk", "qMutFail"}
             => (progress' = progress /\ qRnd'.progress = qRnd.progress) ]_vars

\* After a toggle and the refetch it caused, a read chapter is in the list
\* twice and is counted as the list holds it.
C28_ReadCountedTwice ==
    /\ qReqs = {} /\ qMuts = {} /\ qRnd = QSnapshot
    /\ progress = 2 /\ progressById = 1

\* C29 (mutation failures are surfaced in the refactored client): when the
\* request of toggleRead or addNote has failed, the error that useChapters
\* returns, which App renders, is set.
C29_MutationFailureVisible == ev.op = "qMutFail" => qErr # NoErr

\* C30 (quiescent cache agreement): whenever no request is outstanding and
\* no request has failed, every chapter held in chs has the read flag and
\* the notes of the server's record with its id, in whatever order the
\* responses of the requests that were outstanding together have arrived.
C30_QuiescentAgreement ==
    (listReqs = {} /\ mutReqs = {} /\ detReqs = {} /\ nFail = 0) =>
       \A i \in 1..Len(chs) :
          /\ chs[i].read = FindCh(chapters, chs[i].id).read
          /\ chs[i].notes = FindCh(chapters, chs[i].id).notes

====
